---- MODULE Spec2Model ----
(***************************************************************************)
(* Model of zerver/webhooks/azuredevops/view.py: the Azure DevOps inbound  *)
(* webhook.  Every request is one invocation of api_azuredevops_webhook;   *)
(* invocations interleave at the statement boundaries of the view.  Text   *)
(* is a sequence of one-character strings, so that composing the message   *)
(* body is a real concatenation.                                           *)
(***************************************************************************)
EXTENDS Naturals, Sequences, FiniteSets

\* Number of requests the model follows (all may be in flight at once).
MaxRequests == 2
\* Longest markdown fragment drawn in the single-invocation specification.
MaxLen == 2

Requests == 1..MaxRequests

VARIABLES
    request,       \* request[r]: the HTTP request r as received (api key, query, body)
    pc,            \* pc[r]: where invocation r stands: idle, body, send, return, done
    user_profile,  \* the view's argument user_profile, bound by the api-key decorator
    payload,       \* the view's argument payload
    topic,         \* the view's argument topic
    body,          \* the view's local variable body
    calls,         \* the calls made to check_send_webhook_message, in order
    response       \* response[r]: the HttpResponse the caller of r gets

vars == <<request, pc, user_profile, payload, topic, body, calls, response>>

---------------------------------------------------------------------------
\* Python values, as far as the view touches them.

Str(s) == [t |-> "str", s |-> s]
Dict(o) == [t |-> "dict", o |-> o]
List(l) == [t |-> "list", l |-> l]
None == [t |-> "none"]

NoException == [class |-> "", msg |-> ""]

\* v[k]: a dict without the key raises KeyError(k); a str or a list indexed by a
\* str raises TypeError.
GetItemRaises(v, k) ==
    IF v.t = "dict"
    THEN IF k \in DOMAIN v.o THEN NoException ELSE [class |-> "KeyError", msg |-> k]
    ELSE [class |-> "TypeError", msg |-> "indices must be integers"]

GetItem(v, k) == v.o[k]

\* '\n' + v: str + str concatenates; str + anything else raises TypeError.
AddRaises(v) ==
    IF v.t = "str" THEN NoException ELSE [class |-> "TypeError", msg |-> "must be str"]

---------------------------------------------------------------------------
\* The text of the view.

\* body = 'A new build from Azure DevOps! :smile:'
Preamble ==
    << "A", " ", "n", "e", "w", " ", "b", "u", "i", "l", "d", " ", "f", "r", "o", "m",
       " ", "A", "z", "u", "r", "e", " ", "D", "e", "v", "O", "p", "s", "!", " ", ":",
       "s", "m", "i", "l", "e", ":" >>

\* The default misspelt.
DefaultTopicMisspelt == "converage"

\* topic: str=REQ(default='coverage')
DefaultTopic == "coverage"

\* The exception raised by payload['detailedMessage']["markdown"] and by '\n' + it.
body_template_raises(p) ==
    IF GetItemRaises(p, "detailedMessage").class # ""
    THEN GetItemRaises(p, "detailedMessage")
    ELSE IF GetItemRaises(GetItem(p, "detailedMessage"), "markdown").class # ""
    THEN GetItemRaises(GetItem(p, "detailedMessage"), "markdown")
    ELSE AddRaises(GetItem(GetItem(p, "detailedMessage"), "markdown"))

\* The fragment stripped of a trailing newline before it is appended.
body_template_stripped(p) ==
    LET m == GetItem(GetItem(p, "detailedMessage"), "markdown").s
    IN  <<"\n">> \o (IF Len(m) > 0 /\ m[Len(m)] = "\n" THEN SubSeq(m, 1, Len(m) - 1) ELSE m)

\* body_template = '\n' + payload['detailedMessage']["markdown"]
body_template(p) == <<"\n">> \o GetItem(GetItem(p, "detailedMessage"), "markdown").s

\* body += body_template
ComposeBody(p) == Preamble \o body_template(p)

---------------------------------------------------------------------------
\* The collaborators the view is wired to (their code is outside the view).

\* api_key_only_webhook_view: the api key resolves to a user profile, or to none.
ApiKeys == {"key1", "key2", "wrong", ""}
KeyOwner(k) == IF k = "key1" THEN "bot1" ELSE IF k = "key2" THEN "bot2" ELSE ""
ValidApiKey(k) == KeyOwner(k) # ""

\* json_success(): the generic success envelope, no data.
json_success == [result |-> "success", msg |-> "", code |-> "", data |-> {}]

\* The structured error response the framework builds from an exception that
\* leaves the view or its decorators.
ErrorResponse(e) == [result |-> "error", msg |-> e.msg, code |-> e.class, data |-> {}]

NoResponse == [result |-> "none", msg |-> "", code |-> "", data |-> {}]

AuthenticationError == [class |-> "AuthenticationError", msg |-> "Invalid API key"]
MalformedJson == [class |-> "MalformedPayloadError", msg |-> "Malformed JSON"]
\* What check_send_webhook_message raises when it rejects a message.
DeliveryError == [class |-> "DeliveryError", msg |-> "unknown destination"]

\* The topic parameter ignored: always the default.
TopicArgIgnored(query) == DefaultTopic

\* REQ(default='coverage'): the request's topic parameter, or the default.
TopicArg(query) ==
    IF \E p \in query : p[1] = "topic"
    THEN (CHOOSE p \in query : p[1] = "topic")[2]
    ELSE DefaultTopic

---------------------------------------------------------------------------
\* The requests the model draws.

RECURSIVE TextsOfLen(_)
TextsOfLen(n) ==
    IF n = 0 THEN {<<>>}
    ELSE {<<c>> \o s : c \in {"a", "*", "\n"}, s \in TextsOfLen(n - 1)}

Texts == UNION {TextsOfLen(n) : n \in 0..MaxLen}

SampleTexts == {<<>>, <<"*", "\n", "a">>}

NotJson == [parses |-> FALSE]
JsonBody(v) == [parses |-> TRUE, value |-> v]

\* {"detailedMessage": {"markdown": m}}
BuildPayload(m) == Dict([detailedMessage |-> Dict([markdown |-> Str(m)])])
\* {"id": "a"}
NoDetailedMessage == Dict([id |-> Str(<<"a">>)])
\* {"detailedMessage": {"text": "a"}}
NoMarkdown == Dict([detailedMessage |-> Dict([text |-> Str(<<"a">>)])])
\* {"detailedMessage": [{"markdown": "a"}]}
ListDetailedMessage == Dict([detailedMessage |-> List(<<Dict([markdown |-> Str(<<"a">>)])>>)])
\* {"detailedMessage": {"markdown": ["a"]}}
ListMarkdown == Dict([detailedMessage |-> Dict([markdown |-> List(<<Str(<<"a">>)>>)])])

BodiesOver(T) ==
    {NotJson} \cup {JsonBody(BuildPayload(m)) : m \in T}
        \cup {JsonBody(NoDetailedMessage), JsonBody(NoMarkdown)}

AllBodies == BodiesOver(Texts) \cup {JsonBody(ListDetailedMessage), JsonBody(ListMarkdown)}

Queries == {{}, {<<"topic", "ci-results">>}}

AllQueries == Queries \cup {{<<"topic", "coverage">>}, {<<"topic", "builds">>}}

NoRequest == [api_key |-> "", query |-> {}, body |-> NotJson, arrived |-> FALSE]

HttpRequests(Q, B) ==
    [api_key : ApiKeys, query : Q, body : B, arrived : {TRUE}]

---------------------------------------------------------------------------

Init ==
    /\ request = [r \in Requests |-> NoRequest]
    /\ pc = [r \in Requests |-> "idle"]
    /\ user_profile = [r \in Requests |-> ""]
    /\ payload = [r \in Requests |-> None]
    /\ topic = [r \in Requests |-> ""]
    /\ body = [r \in Requests |-> <<>>]
    /\ calls = <<>>
    /\ response = [r \in Requests |-> NoResponse]

\* An exception leaves the invocation: the framework answers with its error.
Raise(r, e) ==
    /\ pc' = [pc EXCEPT ![r] = "done"]
    /\ response' = [response EXCEPT ![r] = ErrorResponse(e)]

\* The view without its api-key decorator: every request enters the view.
DispatchNoAuth(r, req) ==
    /\ pc[r] = "idle"
    /\ \A q \in Requests : q < r => pc[q] # "idle"
    /\ request' = [request EXCEPT ![r] = req]
    /\ IF ~req.body.parses
       THEN /\ Raise(r, MalformedJson)
            /\ UNCHANGED <<user_profile, payload, topic>>
       ELSE /\ pc' = [pc EXCEPT ![r] = "body"]
            /\ user_profile' = [user_profile EXCEPT ![r] = KeyOwner(req.api_key)]
            /\ payload' = [payload EXCEPT ![r] = req.body.value]
            /\ topic' = [topic EXCEPT ![r] = TopicArg(req.query)]
            /\ UNCHANGED response
    /\ UNCHANGED <<body, calls>>

\* @api_key_only_webhook_view('AzureDevops') @has_request_variables
\* def api_azuredevops_webhook(request, user_profile, payload=REQ(argument_type='body'),
\*                             topic=REQ(default='coverage'))
\* Request r arrives as req: the api key is checked, then the arguments are bound
\* and the view is entered.
Dispatch(r, req) ==
    /\ pc[r] = "idle"
    /\ \A q \in Requests : q < r => pc[q] # "idle"
    /\ request' = [request EXCEPT ![r] = req]
    /\ IF ~ValidApiKey(req.api_key)
       THEN /\ Raise(r, AuthenticationError)
            /\ UNCHANGED <<user_profile, payload, topic>>
       ELSE IF ~req.body.parses
       THEN /\ Raise(r, MalformedJson)
            /\ UNCHANGED <<user_profile, payload, topic>>
       ELSE /\ pc' = [pc EXCEPT ![r] = "body"]
            /\ user_profile' = [user_profile EXCEPT ![r] = KeyOwner(req.api_key)]
            /\ payload' = [payload EXCEPT ![r] = req.body.value]
            /\ topic' = [topic EXCEPT ![r] = TopicArg(req.query)]
            /\ UNCHANGED response
    /\ UNCHANGED <<body, calls>>

\* The lookups made lenient (payload.get(..., {}).get('markdown', '')): a missing
\* key yields the empty fragment instead of an exception.
ComposeLenient(r) ==
    /\ pc[r] = "body"
    /\ IF body_template_raises(payload[r]).class = "TypeError"
       THEN /\ Raise(r, body_template_raises(payload[r]))
            /\ UNCHANGED body
       ELSE /\ body' = [body EXCEPT ![r] =
                    IF body_template_raises(payload[r]).class = "KeyError"
                    THEN Preamble \o <<"\n">>
                    ELSE ComposeBody(payload[r])]
            /\ pc' = [pc EXCEPT ![r] = "send"]
            /\ UNCHANGED response
    /\ UNCHANGED <<request, user_profile, payload, topic, calls>>

\* body kept in a module-level variable that every invocation shares.
ComposeShared(r) ==
    /\ pc[r] = "body"
    /\ IF body_template_raises(payload[r]).class # ""
       THEN /\ Raise(r, body_template_raises(payload[r]))
            /\ UNCHANGED body
       ELSE /\ body' = [q \in Requests |-> ComposeBody(payload[r])]
            /\ pc' = [pc EXCEPT ![r] = "send"]
            /\ UNCHANGED response
    /\ UNCHANGED <<request, user_profile, payload, topic, calls>>

\* Lines 22-26: body = '...'; body_template = '\n' + payload[...][...]; body += ...
Compose(r) ==
    /\ pc[r] = "body"
    /\ IF body_template_raises(payload[r]).class # ""
       THEN /\ Raise(r, body_template_raises(payload[r]))
            /\ UNCHANGED body
       ELSE /\ body' = [body EXCEPT ![r] = ComposeBody(payload[r])]
            /\ pc' = [pc EXCEPT ![r] = "send"]
            /\ UNCHANGED response
    /\ UNCHANGED <<request, user_profile, payload, topic, calls>>

SendCall(r, ok) ==
    [req |-> r, user_profile |-> user_profile[r], topic |-> topic[r], body |-> body[r],
     ok |-> ok]

\* The call wrapped in try/except: a rejection is swallowed and the view goes on.
SendSwallow(r) ==
    /\ pc[r] = "send"
    /\ \E ok \in BOOLEAN : calls' = Append(calls, SendCall(r, ok))
    /\ pc' = [pc EXCEPT ![r] = "return"]
    /\ UNCHANGED <<request, user_profile, payload, topic, body, response>>

\* The call skipped when the same message was delivered before.
SendDedup(r) ==
    /\ pc[r] = "send"
    /\ IF \E i \in DOMAIN calls : calls[i].ok /\ calls[i].topic = topic[r]
                                  /\ calls[i].body = body[r]
                                  /\ calls[i].user_profile = user_profile[r]
       THEN pc' = [pc EXCEPT ![r] = "return"] /\ UNCHANGED <<calls, response>>
       ELSE \E ok \in BOOLEAN :
               /\ calls' = Append(calls, SendCall(r, ok))
               /\ IF ok
                  THEN pc' = [pc EXCEPT ![r] = "return"] /\ UNCHANGED response
                  ELSE Raise(r, DeliveryError)
    /\ UNCHANGED <<request, user_profile, payload, topic, body>>

\* The call made again after a rejection.
SendRetry(r) ==
    /\ pc[r] = "send"
    /\ Len(calls) < 2 * MaxRequests
    /\ \E ok \in BOOLEAN :
        /\ calls' = Append(calls, SendCall(r, ok))
        /\ IF ok
           THEN pc' = [pc EXCEPT ![r] = "return"] /\ UNCHANGED response
           ELSE UNCHANGED <<pc, response>>
    /\ UNCHANGED <<request, user_profile, payload, topic, body>>

\* Line 30: check_send_webhook_message(request, user_profile, topic, body).  The
\* collaborator delivers the message and returns, or rejects it and raises.
Send(r) ==
    /\ pc[r] = "send"
    /\ \E ok \in BOOLEAN :
        /\ calls' = Append(calls, SendCall(r, ok))
        /\ IF ok
           THEN pc' = [pc EXCEPT ![r] = "return"] /\ UNCHANGED response
           ELSE Raise(r, DeliveryError)
    /\ UNCHANGED <<request, user_profile, payload, topic, body>>

\* Line 32: return json_success()
Return(r) ==
    /\ pc[r] = "return"
    /\ pc' = [pc EXCEPT ![r] = "done"]
    /\ response' = [response EXCEPT ![r] = json_success]
    /\ UNCHANGED <<request, user_profile, payload, topic, body, calls>>

api_azuredevops_webhook(r) == Compose(r) \/ Send(r) \/ Return(r)

Next ==
    \/ \E r \in Requests : \E req \in HttpRequests(Queries, BodiesOver(SampleTexts)) : Dispatch(r, req)
    \/ \E r \in Requests : api_azuredevops_webhook(r)

Spec == Init /\ [][Next]_vars

\* One invocation, its request drawn from every modelled shape of api key, query
\* and body.
NextSingle ==
    \/ \E req \in HttpRequests(AllQueries, AllBodies) : Dispatch(1, req)
    \/ api_azuredevops_webhook(1)

SpecSingle == Init /\ [][NextSingle]_vars

---------------------------------------------------------------------------
\* What the properties below say of a request, read off the request as it was
\* received.

Authenticated(req) == req.arrived /\ req.api_key \in {"key1", "key2"}

CallerOf(req) == IF req.api_key = "key1" THEN "bot1" ELSE "bot2"

LacksDetailedMessage(req) ==
    /\ req.arrived /\ req.body.parses
    /\ req.body.value.t = "dict"
    /\ "detailedMessage" \notin DOMAIN req.body.value.o

LacksMarkdown(req) ==
    /\ req.arrived /\ req.body.parses
    /\ req.body.value.t = "dict"
    /\ "detailedMessage" \in DOMAIN req.body.value.o
    /\ req.body.value.o.detailedMessage.t = "dict"
    /\ "markdown" \notin DOMAIN req.body.value.o.detailedMessage.o

HasMarkdownText(req) ==
    /\ req.arrived /\ req.body.parses
    /\ req.body.value.t = "dict"
    /\ "detailedMessage" \in DOMAIN req.body.value.o
    /\ req.body.value.o.detailedMessage.t = "dict"
    /\ "markdown" \in DOMAIN req.body.value.o.detailedMessage.o
    /\ req.body.value.o.detailedMessage.o.markdown.t = "str"

MarkdownOf(req) == req.body.value.o.detailedMessage.o.markdown.s

\* 'A new build from Azure DevOps! :smile:', a newline, then the fragment m.
ExpectedBody(m) ==
    << "A", " ", "n", "e", "w", " ", "b", "u", "i", "l", "d", " ", "f", "r", "o", "m",
       " ", "A", "z", "u", "r", "e", " ", "D", "e", "v", "O", "p", "s", "!", " ", ":",
       "s", "m", "i", "l", "e", ":", "\n" >> \o m

SuppliedTopics(req) == {p[2] : p \in {x \in req.query : x[1] = "topic"}}

CallsOf(r) == {i \in DOMAIN calls : calls[i].req = r}

Delivered == {i \in DOMAIN calls : calls[i].ok}

SuccessEnvelope == [result |-> "success", msg |-> "", code |-> "", data |-> {}]

Valid(req) == Authenticated(req) /\ HasMarkdownText(req)

---------------------------------------------------------------------------
\* C1: for every authenticated request whose payload holds
\* detailedMessage.markdown = m, the body handed to check_send_webhook_message is
\* the preamble, one newline, then m unchanged; and the request that has left the
\* view did hand one over.
C1_BodyIsPreambleNewlineMarkdown ==
    \A r \in Requests :
        Valid(request[r]) =>
            /\ \A i \in CallsOf(r) : calls[i].body = ExpectedBody(MarkdownOf(request[r]))
            /\ pc[r] \in {"return", "done"} => CallsOf(r) # {}

\* A fragment made of a markdown character and a newline has been sent.
C1_Witness ==
    \E i \in DOMAIN calls :
        /\ Valid(request[calls[i].req])
        /\ MarkdownOf(request[calls[i].req]) = <<"*", "\n">>
        /\ Len(calls[i].body) = 41

\* C2: an authenticated request with a valid payload and no topic parameter calls
\* check_send_webhook_message with topic 'coverage' and the composed body, and
\* once that delivery succeeded the response is the success envelope, no data.
C2_DefaultTopicAndSuccess ==
    \A r \in Requests :
        (Valid(request[r]) /\ SuppliedTopics(request[r]) = {}) =>
            /\ \A i \in CallsOf(r) :
                /\ calls[i].topic = "coverage"
                /\ calls[i].body = ExpectedBody(MarkdownOf(request[r]))
            /\ pc[r] \in {"return", "done"} => CallsOf(r) # {}
            /\ (pc[r] = "done" /\ \E i \in CallsOf(r) : calls[i].ok) =>
                   response[r] = SuccessEnvelope

\* A request without topic has been delivered under 'coverage' and answered.
C2_Witness ==
    \E r \in Requests :
        /\ Valid(request[r]) /\ SuppliedTopics(request[r]) = {}
        /\ pc[r] = "done"
        /\ response[r].result = "success"
        /\ \E i \in CallsOf(r) : calls[i].ok /\ calls[i].topic = "coverage"

\* C3: an authenticated request with a valid payload and a topic parameter t calls
\* check_send_webhook_message with topic exactly t.
C3_SuppliedTopicPassedThrough ==
    \A r \in Requests :
        Valid(request[r]) =>
            /\ \A t \in SuppliedTopics(request[r]) :
                /\ \A i \in CallsOf(r) : calls[i].topic = t
                /\ pc[r] \in {"send", "return", "done"} => topic[r] = t
            /\ \A i \in CallsOf(r) :
                   (calls[i].topic = "coverage" /\ "coverage" \notin SuppliedTopics(request[r]))
                       => SuppliedTopics(request[r]) = {}

\* A request with topic=ci-results has been sent under that topic.
C3_Witness ==
    \E i \in DOMAIN calls :
        /\ Valid(request[calls[i].req])
        /\ SuppliedTopics(request[calls[i].req]) = {"ci-results"}
        /\ calls[i].topic = "ci-results"

\* C4: an authenticated request whose payload lacks detailedMessage, or whose
\* detailedMessage lacks markdown, is answered with an error response, never
\* with success, and check_send_webhook_message is never called for it.
C4_MissingKeyNoDelivery ==
    \A r \in Requests :
        (Authenticated(request[r])
            /\ (LacksDetailedMessage(request[r]) \/ LacksMarkdown(request[r]))) =>
            /\ CallsOf(r) = {}
            /\ pc[r] \in {"body", "done"}
            /\ response[r].result # "success"
            /\ pc[r] = "done" => response[r].result = "error"

\* Both shapes of missing key have been answered.
C4_Witness ==
    /\ \E r \in Requests :
        /\ Authenticated(request[r]) /\ LacksDetailedMessage(request[r])
        /\ pc[r] = "done" /\ response[r].result = "error"
    /\ \E r \in Requests :
        /\ Authenticated(request[r]) /\ LacksMarkdown(request[r])
        /\ pc[r] = "done" /\ response[r].result = "error"

\* C5: a payload that is not valid JSON, or that lacks detailedMessage or the
\* nested markdown key, is reported as a MalformedPayloadError whose message names
\* the missing field, and as no other class of error.
C5_MissingKeyIsMalformedPayloadError ==
    \A r \in Requests :
        (Authenticated(request[r]) /\ pc[r] = "done") =>
            /\ ~request[r].body.parses => response[r].code = "MalformedPayloadError"
            /\ LacksDetailedMessage(request[r]) =>
                   /\ response[r].code = "MalformedPayloadError"
                   /\ response[r].msg = "detailedMessage"
            /\ LacksMarkdown(request[r]) =>
                   /\ response[r].code = "MalformedPayloadError"
                   /\ response[r].msg = "markdown"

\* C6: a request with an invalid or missing api key never enters the view: nothing
\* is bound or composed, check_send_webhook_message is not called, and the
\* response is the authorization error, whatever the payload.
C6_InvalidKeyNeverEnters ==
    \A r \in Requests :
        (request[r].arrived /\ ~Authenticated(request[r])) =>
            /\ pc[r] = "done"
            /\ response[r].result = "error"
            /\ response[r].code = "AuthenticationError"
            /\ CallsOf(r) = {}
            /\ body[r] = <<>>
            /\ payload[r] = None
            /\ user_profile[r] = ""

\* A request with a wrong key and a well-formed payload has been turned away, and
\* so has one without any key.
C6_Witness ==
    /\ \E r \in Requests :
        /\ request[r].arrived /\ request[r].api_key = "wrong"
        /\ HasMarkdownText(request[r])
        /\ response[r].code = "AuthenticationError"
    /\ \E r \in Requests :
        /\ request[r].arrived /\ request[r].api_key = ""
        /\ response[r].code = "AuthenticationError"

\* C7: the deliveries that succeeded are as many as the success responses
\* returned plus the invocations standing between the delivery and the return;
\* an invocation answered success made exactly one call, which delivered; one
\* answered with an error left no delivered message.
C7_DeliveriesMatchSuccesses ==
    /\ Cardinality(Delivered) =
           Cardinality({r \in Requests : response[r].result = "success"})
               + Cardinality({r \in Requests : pc[r] = "return"})
    /\ \A r \in Requests :
        /\ response[r].result = "success" =>
               /\ Cardinality(CallsOf(r)) = 1
               /\ CallsOf(r) \subseteq Delivered
        /\ response[r].result = "error" => CallsOf(r) \cap Delivered = {}

\* One request answered success and one answered with a delivery error.
C7_Witness ==
    /\ \E r \in Requests : pc[r] = "done" /\ response[r].result = "success"
    /\ \E r \in Requests : pc[r] = "done" /\ response[r].code = "DeliveryError"
    /\ Cardinality(Delivered) = 1

\* C8: no deduplication: for every request, the delivered messages that carry its
\* caller, topic and body are as many as the invocations with that same caller,
\* topic and body whose delivery succeeded.
C8_NoDeduplication ==
    \A r \in Requests :
        Valid(request[r]) =>
            Cardinality({i \in Delivered :
                            /\ calls[i].user_profile = CallerOf(request[r])
                            /\ calls[i].topic = topic[r]
                            /\ calls[i].body = ExpectedBody(MarkdownOf(request[r]))})
            = Cardinality({q \in Requests :
                            /\ Valid(request[q])
                            /\ request[q].api_key = request[r].api_key
                            /\ request[q].query = request[r].query
                            /\ request[q].body = request[r].body
                            /\ (pc[q] = "return" \/ response[q].result = "success")})

\* The same request made twice, answered success twice, delivered twice.
C8_Witness ==
    \E r, q \in Requests :
        /\ r # q
        /\ request[r] = request[q]
        /\ response[r].result = "success" /\ response[q].result = "success"
        /\ \E i, j \in Delivered :
            /\ i # j
            /\ calls[i].topic = calls[j].topic
            /\ calls[i].body = calls[j].body
            /\ calls[i].user_profile = calls[j].user_profile

\* C9: check_send_webhook_message is called at most once per request; when it
\* rejects the message the response is that rejection, unchanged, never success;
\* and success is only returned after the call has delivered.
C9_RejectionPropagates ==
    \A r \in Requests :
        /\ Cardinality(CallsOf(r)) <= 1
        /\ (\E i \in CallsOf(r) : ~calls[i].ok) =>
               /\ pc[r] = "done"
               /\ response[r] = [result |-> "error", msg |-> "unknown destination",
                                 code |-> "DeliveryError", data |-> {}]
        /\ response[r].result = "success" => \E i \in CallsOf(r) : calls[i].ok

\* A request whose delivery was rejected has been answered.
C9_Witness ==
    \E r \in Requests :
        /\ \E i \in CallsOf(r) : ~calls[i].ok
        /\ pc[r] = "done"
        /\ response[r].code = "DeliveryError"

\* C10: under every interleaving, each call to check_send_webhook_message carries
\* the caller, the topic and the body of the request it was made for, and each
\* answered request's outcome is the outcome of its own call.
C10_InvocationsIsolated ==
    /\ \A i \in DOMAIN calls :
        LET req == request[calls[i].req]
        IN  /\ Valid(req)
            /\ calls[i].user_profile = CallerOf(req)
            /\ calls[i].topic =
                   (IF SuppliedTopics(req) = {} THEN "coverage"
                    ELSE CHOOSE t \in SuppliedTopics(req) : TRUE)
            /\ calls[i].body = ExpectedBody(MarkdownOf(req))
    /\ \A r \in Requests :
        (Valid(request[r]) /\ pc[r] = "done") =>
            /\ CallsOf(r) # {}
            /\ response[r].result = "success" <=> \A i \in CallsOf(r) : calls[i].ok

\* Two requests that differ in caller, topic and body overlapped: the later one
\* was sent first, and both were delivered.
C10_Witness ==
    /\ Len(calls) = 2
    /\ calls[1].req > calls[2].req
    /\ calls[1].ok /\ calls[2].ok
    /\ calls[1].user_profile # calls[2].user_profile
    /\ calls[1].topic # calls[2].topic
    /\ calls[1].body # calls[2].body

====
